---- MODULE Spec2Model ----
(***************************************************************************)
(* criprof: the detection engine (engine.go), its result cache, the probe  *)
(* interface (detector.go) and the probes the engine's contract is stated  *)
(* over (the built-in file, environment and network detectors and the      *)
(* synthetic detectors of engine_test.go).                                 *)
(*                                                                         *)
(* One DetectAll call is a sequence of steps of one goroutine: the cache   *)
(* read (Call), the cancellation pre-check of an iteration (BeginProbe),   *)
(* the return of detector.Detect and the engine's handling of what it      *)
(* returned (EndProbe), and buildInventory + cache.Set + return (Finish).  *)
(* The wall clock (Tick) and a context's cancel function (Cancel) move     *)
(* between those steps, which is what lets a deadline pass while a probe   *)
(* is blocked.  Confidence 0.95 is written 95.                             *)
(*                                                                         *)
(* The specifications share the state: Spec, one goroutine using one       *)
(* engine; CacheSpec, several goroutines inside the methods of one         *)
(* DetectionCache, one access to a field or to the mutex per step;         *)
(* LibSpec, one goroutine using the package-level functions New,           *)
(* NewWithContext and InvalidateCache over the default engine; HostSpec,   *)
(* the functions that read the host (IsContainer, getImageFormat,          *)
(* DockerFileDetector.Detect, environMap) on each host; SharedSpec,        *)
(* several goroutines calling DetectAll and InvalidateCache on one         *)
(* engine; SliceSpec, engines built from one Detectors slice, by backing   *)
(* array; RecordSpec, the records DetectAll returns, by address.           *)
(***************************************************************************)
EXTENDS Integers, Sequences, FiniteSets, TLC

\* ------------------------------------------------------------------ bounds
MaxTime == 2        \* the clock stops ticking here
MaxTTL == 1         \* CacheTTL is drawn from 0..MaxTTL
MaxHits == 2        \* the count of cache hits since the last store saturates here
ProbeTimeout == 1   \* the timeout field of the network detectors, in clock units

\* ------------------------------------------------------- program constants
Getpid == 4242      \* os.Getpid(): the one process id of the running process
maxInsertion == 12  \* sort.Slice sorts slices up to this length by insertion

Callers == {1, 2}   \* goroutines that may call into the engine
SeqCallers == {1}   \* the single-goroutine client of Spec

\* ------------------------------------------------------------- detector.go
DetectionTypeRuntime == "runtime"
DetectionTypeScheduler == "scheduler"
DetectionTypeImageFormat == "image_format"
DetectionType == {DetectionTypeRuntime, DetectionTypeScheduler, DetectionTypeImageFormat}

\* a nil *Detection, and a Detection value
NoDetection == [nil |-> TRUE]
Detection(t, v, c, s) == [Type |-> t, Value |-> v, Confidence |-> c, Source |-> s]

\* error values a Detect call or DetectAll can return
NilErr == "nil"
Canceled == "context.Canceled"
DeadlineExceeded == "context.DeadlineExceeded"
ErrProbe == "probe-local failure"
\* fmt.Errorf("...: %w", err): an error that wraps a context error
WrappedCanceled == "probe: context.Canceled"
WrappedDeadlineExceeded == "probe: context.DeadlineExceeded"
Wrap(err) ==
    CASE err = Canceled -> WrappedCanceled
      [] err = DeadlineExceeded -> WrappedDeadlineExceeded
\* errors.Unwrap
Unwrap(err) ==
    CASE err = WrappedCanceled -> Canceled
      [] err = WrappedDeadlineExceeded -> DeadlineExceeded
      [] OTHER -> NilErr

\* ---------------------------------------------------------------- detectors
\* A detector is its Name(), its Priority() and the kind that selects its
\* Detect method below.
DockerFileDetector == [Name |-> "docker-file-marker", Priority |-> 100, kind |-> "DockerFile"]
LXDSocketDetector == [Name |-> "lxd-socket", Priority |-> 95, kind |-> "LXDSocket"]
KubernetesServiceAccountDetector == [Name |-> "kubernetes-service-account", Priority |-> 95, kind |-> "KubernetesServiceAccount"]
CRIImageDetector == [Name |-> "cri-image-format", Priority |-> 95, kind |-> "CRIImage"]
SwarmPortDetector == [Name |-> "swarm-port-probe", Priority |-> 20, kind |-> "SwarmPort"]
KubernetesAPIDetector == [Name |-> "kubernetes-api-probe", Priority |-> 10, kind |-> "KubernetesAPI"]
\* engine_test.go: blocks until its delay has passed or ctx is done
slowDetector == [Name |-> "slow-detector", Priority |-> 50, kind |-> "slow"]
\* engine_test.go: priorityDetector{priority: p}; n tells the instances apart
priorityDetector(n, p) == [Name |-> "priority-detector", Priority |-> p, kind |-> "priority", n |-> n]
\* a detector whose own operation fails (detector.go: "Returns an error only
\* if the detection logic itself failed"); it may hand back a Detection with it
failingDetector == [Name |-> "failing-detector", Priority |-> 97, kind |-> "failing"]
\* a detector that reports the end of its wait as an error wrapping the
\* context's error
wrappingDetector == [Name |-> "wrapping-detector", Priority |-> 97, kind |-> "wrapping"]

Found(d, t, v, c) == [detection |-> Detection(t, v, c, d.Name), err |-> NilErr]
Nothing == [detection |-> NoDetection, err |-> NilErr]

\* KubernetesAPIDetector.Detect: the HTTP request runs under the caller's
\* context narrowed by the detector's timeout; every request error, the
\* caller's cancellation among them, is turned into (nil, nil).
KubernetesAPIDetect(d, ctxErr) ==
    IF ctxErr # NilErr
    THEN {Nothing}
    ELSE {Found(d, DetectionTypeScheduler, "kubernetes", 80), Nothing}

\* SwarmPortDetector.Detect: DialTimeout with the detector's own timeout;
\* the caller's context is not consulted.
SwarmPortDetect(d, ctxErr) ==
    {Found(d, DetectionTypeScheduler, "swarm", 80), Nothing}

\* slowDetector.Detect: select on time.After(delay) and ctx.Done().
slowDetect(d, ctxErr) ==
    IF ctxErr # NilErr
    THEN {[detection |-> NoDetection, err |-> ctxErr]}
    ELSE {Nothing}

\* wrappingDetector.Detect: waits under a context derived from the caller's
\* with its own timeout; when the wait ends by that context it returns the
\* context's error wrapped: the caller's error when the caller's context
\* is done, the deadline error of its own timeout otherwise.
wrappingDetect(d, ctxErr) ==
    IF ctxErr # NilErr
    THEN {[detection |-> NoDetection, err |-> Wrap(ctxErr)]}
    ELSE {Nothing, [detection |-> NoDetection, err |-> Wrap(DeadlineExceeded)]}

\* ------------------------------------------------------------- the host
\* What the functions of the package read: the result of os.Stat for the
\* files they look at, the content of /proc/self/cgroup, the keys of the
\* EnvironmentVariables map and the entries os.Environ returns.
Files == {"/.dockerinit", "/.dockerenv", "/run/.containerenv", "/proc/self/cgroup"}

\* the error of os.Stat: nil, an error that is os.ErrNotExist, or another
\* error (permission, I/O)
StatNil == "nil"
ErrNotExist == "ENOENT"
ErrOther == "EACCES"
StatErrors == {StatNil, ErrNotExist, ErrOther}

\* os.IsNotExist(err), os.IsExist(err): IsExist holds of "file exists"
\* errors, which Stat never returns; it does not hold of nil
IsNotExist(err) == err = ErrNotExist
IsExist(err) == err = "EEXIST"

\* the content of /proc/self/cgroup: no container entry, a
\* cpu:/docker/<id> entry, a cpuset:/system.slice/docker-<id> entry
CgroupContents == {"plain", "cpu:/docker/", "cpuset:/system.slice/docker-"}

\* the keys getImageFormat looks up in EnvironmentVariables
ACVariables == {"AC_METADATA_URL", "AC_APP_NAME"}

\* the longest entry and the largest number of entries of os.Environ
MaxEntryLen == 3
MaxEnviron == 2

\* the characters of an entry: the separator and any other character
Chars == {"=", "x"}

RECURSIVE Strings(_)
Strings(n) ==
    IF n = 0
    THEN {<<>>}
    ELSE LET shorter == Strings(n - 1)
         IN  shorter \cup {Append(str, ch) : str \in {t \in shorter : Len(t) = n - 1}, ch \in Chars}

\* os.Environ: the entries of the process environment, empty ones left out
Entries == Strings(MaxEntryLen) \ {<<>>}

RECURSIVE Environs(_)
Environs(n) ==
    IF n = 0
    THEN {<<>>}
    ELSE LET shorter == Environs(n - 1)
         IN  shorter \cup {Append(env, e) : env \in {t \in shorter : Len(t) = n - 1}, e \in Entries}

\* strings.Split(str, "="): the pieces between the separators, one more
\* than there are separators
RECURSIVE Split(_)
Split(str) ==
    IF \A i \in 1..Len(str) : str[i] # "="
    THEN <<str>>
    ELSE LET i == CHOOSE k \in 1..Len(str) :
                      str[k] = "=" /\ \A j \in 1..(k - 1) : str[j] # "="
         IN  <<SubSeq(str, 1, i - 1)>> \o Split(SubSeq(str, i + 1, Len(str)))

\* the map after vars[key] = value
MapStore(vars, key, value) ==
    [k \in (DOMAIN vars) \cup {key} |-> IF k = key THEN value ELSE vars[k]]

\* environMap: for each pair, e := strings.Split(pair, "=") and
\* vars[e[0]] = e[1]; e[1] of a one-piece split is an index out of range,
\* which panics
RECURSIVE environMapFrom(_, _, _)
environMapFrom(env, i, vars) ==
    IF i > Len(env)
    THEN [panic |-> FALSE, vars |-> vars]
    ELSE LET e == Split(env[i])
         IN  IF Len(e) < 2
             THEN [panic |-> TRUE, vars |-> vars]
             ELSE environMapFrom(env, i + 1, MapStore(vars, e[1], e[2]))

environMap(env) == environMapFrom(env, 1, <<>>)

\* os.Stat(f) on host h
Stat(h, f) == h.stat[f]

\* getContainerID on host h: the cgroup file is read only if os.IsExist
\* holds of Stat's error; the slices of the content taken around the match
\* are told apart by name
getContainerIDOn(h) ==
    IF IsExist(Stat(h, "/proc/self/cgroup"))
    THEN CASE h.cgroup = "cpu:/docker/" -> "strCgroup[loc[0]+12 : loc[1]-2]"
           [] h.cgroup = "cpuset:/system.slice/docker-" -> "strCgroup[loc[0]+27:]"
           [] OTHER -> "undetermined"
    ELSE "undetermined"

\* IsContainer on host h
IsContainer(h) ==
    IF Stat(h, "/.dockerinit") = StatNil THEN TRUE
    ELSE IF Stat(h, "/.dockerenv") = StatNil THEN TRUE
    ELSE IF getContainerIDOn(h) # "" THEN TRUE
    ELSE FALSE

\* isDockerFormat on host h: (bool, error)
isDockerFormat(h) ==
    IF Stat(h, "/.dockerinit") = StatNil THEN [ok |-> TRUE, err |-> NilErr]
    ELSE IF ~IsNotExist(Stat(h, "/.dockerinit"))
    THEN [ok |-> FALSE, err |-> "failed to check /.dockerinit file"]
    ELSE IF Stat(h, "/.dockerenv") = StatNil THEN [ok |-> TRUE, err |-> NilErr]
    ELSE IF ~IsNotExist(Stat(h, "/.dockerenv"))
    THEN [ok |-> FALSE, err |-> "failed to check /.dockerenv file"]
    ELSE [ok |-> FALSE, err |-> NilErr]

\* getImageFormat on host h: (string, error); the boolean isDockerFormat
\* returns is discarded, its error alone decides
getImageFormat(h) ==
    IF isDockerFormat(h).err = NilErr THEN [format |-> "docker", err |-> NilErr]
    ELSE IF Stat(h, "/run/.containerenv") = StatNil THEN [format |-> "cri", err |-> NilErr]
    ELSE IF ~IsNotExist(Stat(h, "/run/.containerenv"))
    THEN [format |-> "", err |-> "failed to check /run/.containerenv file"]
    ELSE IF "AC_METADATA_URL" \in h.vars THEN [format |-> "aci", err |-> NilErr]
    ELSE IF "AC_APP_NAME" \in h.vars THEN [format |-> "aci", err |-> NilErr]
    ELSE [format |-> "undetermined", err |-> NilErr]

\* looks at /.dockerinit before /.dockerenv
DockerFileDetect_initFirst(d, h) ==
    IF Stat(h, "/.dockerinit") = StatNil
    THEN Found(d, DetectionTypeRuntime, "docker", 90)
    ELSE IF Stat(h, "/.dockerenv") = StatNil
    THEN Found(d, DetectionTypeRuntime, "docker", 95)
    ELSE Nothing

\* DockerFileDetector.Detect on host h (d.fs.Stat is os.Stat, or the mock's)
DockerFileDetect(d, h) ==
    IF Stat(h, "/.dockerenv") = StatNil
    THEN Found(d, DetectionTypeRuntime, "docker", 95)
    ELSE IF Stat(h, "/.dockerinit") = StatNil
    THEN Found(d, DetectionTypeRuntime, "docker", 90)
    ELSE Nothing

\* a host with no marker file, no variable and an empty environment
BareHost ==
    [stat |-> [f \in Files |-> IF f = "/proc/self/cgroup" THEN StatNil ELSE ErrNotExist],
     cgroup |-> "plain", vars |-> {}, environ |-> <<>>]

\* a Docker container: /.dockerenv exists, the cgroup names the container
DockerHost ==
    [BareHost EXCEPT !.stat = [BareHost.stat EXCEPT !["/.dockerenv"] = StatNil],
                     !.cgroup = "cpu:/docker/"]

\* the hosts considered: every combination of Stat results, cgroup content
\* and variables with an empty environment, and every environment on the
\* bare host
Hosts ==
    {[stat |-> st, cgroup |-> cg, vars |-> vs, environ |-> <<>>] :
        st \in [Files -> StatErrors], cg \in CgroupContents, vs \in SUBSET ACVariables}
    \cup {[BareHost EXCEPT !.environ = env] : env \in Environs(MaxEnviron)}

\* what DockerFileDetector.Detect returns, over the hosts
DockerFileOutcomes == {DockerFileDetect(DockerFileDetector, h) : h \in Hosts}

\* What detector.Detect(ctx) can return when it returns, given the error of
\* the caller's context at that moment (NilErr: not done).  The files and
\* sockets a detector looks at are the environment's: present or absent at
\* each execution.
Detect(d, ctxErr) ==
    CASE d.kind = "DockerFile" -> DockerFileOutcomes
      [] d.kind = "LXDSocket" ->
           {Found(d, DetectionTypeRuntime, "lxd", 95), Nothing}
      [] d.kind = "KubernetesServiceAccount" ->
           {Found(d, DetectionTypeScheduler, "kubernetes", 99), Nothing}
      [] d.kind = "CRIImage" ->
           {Found(d, DetectionTypeImageFormat, "cri", 90), Nothing}
      [] d.kind = "SwarmPort" -> SwarmPortDetect(d, ctxErr)
      [] d.kind = "KubernetesAPI" -> KubernetesAPIDetect(d, ctxErr)
      [] d.kind = "slow" -> slowDetect(d, ctxErr)
      [] d.kind = "priority" -> {Nothing}
      [] d.kind = "wrapping" -> wrappingDetect(d, ctxErr)
      [] d.kind = "failing" ->
           {[detection |-> NoDetection, err |-> ErrProbe],
            [detection |-> Detection(DetectionTypeRuntime, "bogus", 100, d.Name),
             err |-> ErrProbe]}

\* ------------------------------------------------- NewEngine: sort.Slice
\* the comparison turned around: lowest priority first
less_ascending(a, b) == a.Priority < b.Priority

\* the less function handed to sort.Slice: highest priority first
less(a, b) == a.Priority > b.Priority

\* insertionSort of package sort: each element moves left past the elements
\* it is less than, and stops at the first one it is not less than.
InsertSorted(t, x) ==
    LET p == CHOOSE j \in 0..Len(t) :
                 /\ (j = 0 \/ ~less(x, t[j]))
                 /\ \A k \in (j + 1)..Len(t) : less(x, t[k])
    IN  SubSeq(t, 1, p) \o <<x>> \o SubSeq(t, p + 1, Len(t))

RECURSIVE insertionSort(_)
insertionSort(s) ==
    IF s = <<>> THEN <<>>
    ELSE InsertSorted(insertionSort(SubSeq(s, 1, Len(s) - 1)), s[Len(s)])

\* every arrangement of the elements at the indices I that is ordered by less
RECURSIVE Orderings(_, _)
Orderings(s, I) ==
    IF I = {} THEN {<<>>}
    ELSE UNION { { <<s[i]>> \o t : t \in Orderings(s, I \ {i}) } :
                 i \in {j \in I : \A k \in I : ~less(s[k], s[j])} }

\* sort.Slice(s, less): "The sort is not guaranteed to be stable: equal
\* elements may be reversed from their original order."  Up to maxInsertion
\* elements it is the insertion sort; beyond, the outcome is some arrangement
\* ordered by less.
SortSlice(s) ==
    IF Len(s) <= maxInsertion
    THEN {insertionSort(s)}
    ELSE Orderings(s, 1..Len(s))

\* ------------------------------------------------------------------ rosters
\* the rosters handed to NewEngine, in registration order
SmallRosters ==
    { <<>>,
      <<CRIImageDetector, KubernetesServiceAccountDetector>>,
      <<LXDSocketDetector, DockerFileDetector>>,
      <<LXDSocketDetector, failingDetector>>,
      <<DockerFileDetector, failingDetector>>,
      <<LXDSocketDetector, wrappingDetector>>,
      <<KubernetesAPIDetector, slowDetector>>,
      <<KubernetesAPIDetector, SwarmPortDetector>>,
      <<SwarmPortDetector, slowDetector>> }

\* a roster longer than maxInsertion, as DefaultDetectors() is; two of its
\* detectors have the same priority
LargeRoster ==
    <<priorityDetector(1, 50), priorityDetector(2, 100), priorityDetector(3, 75),
      priorityDetector(4, 95), priorityDetector(5, 90), priorityDetector(6, 85),
      priorityDetector(7, 80), priorityDetector(8, 70), priorityDetector(9, 60),
      priorityDetector(10, 40), priorityDetector(11, 20), priorityDetector(12, 10),
      priorityDetector(13, 75)>>

\* the EngineConfig values NewEngine is called with: every small roster
\* with caching off and with caching on under each TTL, the large roster
\* with caching off
Configs ==
    { [Detectors |-> r, EnableCaching |-> TRUE, CacheTTL |-> t] :
        r \in SmallRosters, t \in 0..MaxTTL }
    \cup { [Detectors |-> r, EnableCaching |-> FALSE, CacheTTL |-> 0] :
              r \in SmallRosters \cup {LargeRoster} }

\* ------------------------------------------------------------------- state
VARIABLES
    config,       \* the EngineConfig NewEngine was called with
    detectors,    \* engine.detectors
    cache,        \* engine.cache: NilCache, or inventory, timestamp, ttl
    now,          \* the wall clock
    pc,           \* per caller: "idle", "loop", "probe", "done"
    idx,          \* per caller: position in detectors of the iteration
    ctx,          \* per caller: the context of the call: deadline, err
    results,      \* per caller: results map of the run, one entry per type
    log,          \* per caller: the Detect calls of this call and what each returned
    ret,          \* per caller: what the call returned: inventory, err
    meta,         \* per caller: what held when the call started
    lastRet,      \* what the most recently completed call returned, and when
    storedAt,     \* when the most recent run stored its record (-1: none yet)
    hits,         \* calls served from the cache since that store (saturating)
    invalidated,  \* InvalidateCache was called and no DetectAll has started since
    preInval,     \* the cached record was stored by a run InvalidateCache was called during
    thr,          \* per goroutine inside a DetectionCache method: position, locals
    mu,           \* DetectionCache.mu: the writer holding it, the readers holding it
    stored,       \* the (inventory, timestamp) pairs written by completed Sets
    latest,       \* the most recent Set: its argument, its time, invalidated since
    lib,          \* package criprof: defaultEngine set, the calls of New, the last return
    host,         \* the host the process runs on, and what the last call on it returned
    mem           \* slices and records as objects: who shares which backing array
                  \* and which *Inventory

vars == <<config, detectors, cache, now, pc, idx, ctx, results, log,
          ret, meta, lastRet, storedAt, hits, invalidated, preInval, thr, mu, stored,
          latest, lib, host, mem>>

engineVars == <<config, detectors>>
ghostVars == <<lastRet, storedAt, hits, invalidated, preInval>>
callVars == <<pc, idx, ctx, results, log, ret, meta>>
cacheOpVars == <<thr, mu, stored, latest>>
libVars == <<lib>>
hostVars == <<host>>
memVars == <<mem>>

NilInventory == [nil |-> TRUE]
NoReturn == [inventory |-> NilInventory, err |-> NilErr]
NoLast == [inventory |-> NilInventory, err |-> NilErr, at |-> 0]
NoDeadline == -1
Background == [deadline |-> NoDeadline, err |-> NilErr]
EmptyResults == [t \in DetectionType |-> NoDetection]
NoMeta == [start |-> 0, inval |-> FALSE, prev |-> NoLast,
           storedAt |-> -1, hits |-> 0, served |-> FALSE, blocked |-> 0,
           probeAt |-> 0, doneAt |-> -1, overtaken |-> FALSE, stale |-> FALSE]

\* ---------------------------------------------------------- DetectionCache
\* a nil *DetectionCache: the engine was built without caching
NilCache == [nil |-> TRUE]

\* NewDetectionCache(ttl)
NewDetectionCache(ttl) == [inventory |-> NilInventory, timestamp |-> 0, ttl |-> ttl]

\* Get with the expiry test off by one: an entry exactly ttl old is expired
Get_expiresAtTTL ==
    IF cache.inventory = NilInventory THEN NilInventory
    ELSE IF now - cache.timestamp >= cache.ttl THEN NilInventory
    ELSE cache.inventory

\* Get without the expiry test
Get_neverExpires == cache.inventory

\* DetectionCache.Get: the inventory if there is one and it has not expired
Get ==
    IF cache.inventory = NilInventory THEN NilInventory
    ELSE IF now - cache.timestamp > cache.ttl THEN NilInventory
    ELSE cache.inventory

\* DetectionCache.Set
Set(inv) == [cache EXCEPT !.inventory = inv, !.timestamp = now]

\* Invalidate that leaves the inventory in place
Invalidate_keepsInventory == cache

\* DetectionCache.Invalidate
Invalidate == [cache EXCEPT !.inventory = NilInventory]

\* ------------------------------------------------------------------ engine
\* getContainerID: the cgroup file is read only when os.IsExist(err) holds
\* for the error of os.Stat, which holds neither for a nil error nor for
\* "no such file", so the function returns its default.
getContainerID == "undetermined"

\* buildInventory with the scheduler read from the runtime entry
buildInventory_wrongEntry(res, hostOK) ==
    [PID |-> Getpid,
     Runtime |-> IF res[DetectionTypeRuntime] # NoDetection
                 THEN res[DetectionTypeRuntime].Value ELSE "undetermined",
     Scheduler |-> IF res[DetectionTypeRuntime] # NoDetection
                   THEN res[DetectionTypeRuntime].Value ELSE "undetermined",
     ImageFormat |-> IF res[DetectionTypeImageFormat] # NoDetection
                     THEN res[DetectionTypeImageFormat].Value ELSE "undetermined",
     Hostname |-> IF hostOK THEN "host" ELSE "unknown",
     ID |-> getContainerID]

\* Engine.buildInventory; hostOK: os.Hostname() succeeded
buildInventory(res, hostOK) ==
    [PID |-> Getpid,
     Runtime |-> IF res[DetectionTypeRuntime] # NoDetection
                 THEN res[DetectionTypeRuntime].Value ELSE "undetermined",
     Scheduler |-> IF res[DetectionTypeScheduler] # NoDetection
                   THEN res[DetectionTypeScheduler].Value ELSE "undetermined",
     ImageFormat |-> IF res[DetectionTypeImageFormat] # NoDetection
                     THEN res[DetectionTypeImageFormat].Value ELSE "undetermined",
     Hostname |-> IF hostOK THEN "host" ELSE "unknown",
     ID |-> getContainerID]

\* every error of a detector treated as fatal
IsContextErr_anyError(err) == TRUE

\* DetectAll's test of a detector's error: propagate it or continue
IsContextErr(err) == err = Canceled \/ err = DeadlineExceeded

\* Keep with >= for >: on equal confidence the later detection wins
Keep_laterWinsTies(res, detection) ==
    LET existing == res[detection.Type]
    IN  IF existing = NoDetection \/ detection.Confidence >= existing.Confidence
        THEN [res EXCEPT ![detection.Type] = detection]
        ELSE res

\* DetectAll: "Keep detection with highest confidence for each type"
Keep(res, detection) ==
    LET existing == res[detection.Type]
    IN  IF existing = NoDetection \/ detection.Confidence > existing.Confidence
        THEN [res EXCEPT ![detection.Type] = detection]
        ELSE res

\* DetectAll: "Check cache first", when there is a cache
CacheRead == IF cache # NilCache THEN Get ELSE NilInventory

\* DetectAll: "Cache the result", when there is a cache
CacheWrite(inv) == IF cache # NilCache THEN Set(inv) ELSE cache

\* os.Hostname() in buildInventory: whether it succeeds.  Its failure is
\* explored for the engine with the empty roster.
HostnameOutcomes == IF detectors = <<>> THEN BOOLEAN ELSE {TRUE}

\* NewEngine that builds the cache whatever EnableCaching says
NewEngine_alwaysCaches(cfg) ==
    { [detectors |-> d, cache |-> NewDetectionCache(cfg.CacheTTL)] :
      d \in SortSlice(cfg.Detectors) }

\* NewEngine(config): the engines it can return
NewEngine(cfg) ==
    { [detectors |-> d,
       cache |-> IF cfg.EnableCaching
                 THEN NewDetectionCache(cfg.CacheTTL) ELSE NilCache] :
      d \in SortSlice(cfg.Detectors) }

\* ------------------------------------------- DetectionCache, step by step
\* The goroutines that call the cache's methods at the same time, and what
\* each holds between two steps of a method: the method's position, the
\* argument of Set, the fields Get has read and its return value.
Threads == {1, 2, 3}
IdleThread == [pc |-> "idle", inv |-> NilInventory, ts |-> 0, at |-> 0,
               result |-> NilInventory]
\* sync.RWMutex: writer is the goroutine holding Lock (0: none), readers
\* the goroutines holding RLock
Unlocked == [writer |-> 0, readers |-> {}]

\* ------------------------------------------------------- package criprof
\* The package before any of its functions is called: defaultEngine is nil,
\* New has not been called, nothing has been returned.  About New the
\* state keeps the time of its last call (-1: none), the time between the
\* last two calls (-1: fewer than two), whether the last call performed
\* detection, and whether InvalidateCache was called between the two;
\* invalSinceNew: InvalidateCache was called since the last New.
NoOut == [fn |-> "none", inventory |-> NilInventory, err |-> NilErr]
NoLib == [engine |-> FALSE, out |-> NoOut,
          newAt |-> -1, newGap |-> -1,
          newDetected |-> FALSE, newInval |-> FALSE, invalSinceNew |-> FALSE]

\* initDefaultEngine: the EngineConfig of the default engine.  Its roster
\* stands for DefaultDetectors(): of its detectors the one that runs last,
\* the Kubernetes API probe; its TTL is the 5 minutes.
DefaultDetectors == <<KubernetesAPIDetector>>
DefaultConfig == [Detectors |-> DefaultDetectors, EnableCaching |-> TRUE,
                  CacheTTL |-> MaxTTL]

\* no fallback: the nil inventory DetectAll returned with its error
FallbackInventory_nil == NilInventory

\* NewWithContext: the inventory returned when DetectAll returned an error
FallbackInventory ==
    [PID |-> 0, Runtime |-> "undetermined", Scheduler |-> "undetermined",
     ImageFormat |-> "undetermined", ID |-> "undetermined", Hostname |-> "unknown"]

\* what getRuntime, getScheduler and getImageFormat return on the hosts
\* considered: the bare host, and a Docker container under Kubernetes
LegacyDetection ==
    { [Runtime |-> "undetermined", Scheduler |-> "undetermined",
       ImageFormat |-> getImageFormat(BareHost).format],
      [Runtime |-> "docker", Scheduler |-> "kubernetes",
       ImageFormat |-> getImageFormat(DockerHost).format] }

\* the most engines built from one slice, and the most records allocated
MaxEngines == 2
MaxObjects == 2

\* no slice has been passed to NewEngine, no record has been allocated
NoMem ==
    [array |-> <<>>, passed |-> <<>>, returned |-> <<>>, engines |-> <<>>,
     heap |-> <<>>, built |-> <<>>, cachePtr |-> 0,
     held |-> [c \in Callers |-> 0], got |-> [c \in Callers |-> NilInventory]]

\* nothing has been called on the host
NoCall ==
    [fn |-> "none", container |-> FALSE, format |-> "", detection |-> Nothing,
     env |-> [panic |-> FALSE, vars |-> <<>>]]

\* outside the host specification: the bare host, nothing called
NoHost == [on |-> BareHost, out |-> NoCall]

\* no Set has been called
NoSet == [inventory |-> NilInventory, at |-> 0, invalidated |-> FALSE]

\* the records handed to Set
CacheRecords ==
    { buildInventory(EmptyResults, TRUE),
      buildInventory(Keep(EmptyResults,
                          Detection(DetectionTypeRuntime, "docker", 95,
                                    DockerFileDetector.Name)), TRUE) }

\* ----------------------------------------------------------------- Init
\* The state after engine := NewEngine(config), for each config of the bounds.
Init ==
    /\ config \in Configs
    /\ \E engine \in NewEngine(config) :
          /\ detectors = engine.detectors
          /\ cache = engine.cache
    /\ now = 0
    /\ pc = [c \in Callers |-> "idle"]
    /\ idx = [c \in Callers |-> 0]
    /\ ctx = [c \in Callers |-> Background]
    /\ results = [c \in Callers |-> EmptyResults]
    /\ log = [c \in Callers |-> <<>>]
    /\ ret = [c \in Callers |-> NoReturn]
    /\ meta = [c \in Callers |-> NoMeta]
    /\ lastRet = NoLast
    /\ storedAt = -1
    /\ hits = 0
    /\ invalidated = FALSE
    /\ preInval = FALSE
    /\ thr = [t \in Threads |-> IdleThread]
    /\ mu = Unlocked
    /\ stored = {}
    /\ latest = NoSet
    /\ lib = NoLib
    /\ host = NoHost
    /\ mem = NoMem

\* ----------------------------------------------------------------- actions
InFlight(c) == pc[c] \in {"loop", "probe"}
Quiescent == \A c \in Callers : pc[c] = "idle"

\* the contexts a caller passes: context.Background(), a context whose
\* deadline is one clock unit ahead, a context cancelled before the call
Contexts ==
    { Background,
      [deadline |-> now + 1, err |-> NilErr],
      [deadline |-> NoDeadline, err |-> Canceled] }

\* the call returns (inv, err)
Return(c, inv, err) ==
    /\ pc' = [pc EXCEPT ![c] = "done"]
    /\ ret' = [ret EXCEPT ![c] = [inventory |-> inv, err |-> err]]
    /\ lastRet' = [inventory |-> inv, err |-> err, at |-> now]

\* DetectAll, entry: the cache read; a hit returns the cached inventory
Call(c) ==
    /\ pc[c] = "idle"
    /\ \E k \in Contexts : ctx' = [ctx EXCEPT ![c] = k]
    /\ invalidated' = FALSE
    /\ LET cached == CacheRead
           m == [start |-> now, inval |-> invalidated, prev |-> lastRet,
                 storedAt |-> storedAt,
                 hits |-> hits, served |-> cached # NilInventory, blocked |-> 0,
                 probeAt |-> 0,
                 doneAt |-> IF ctx'[c].err # NilErr THEN now ELSE -1,
                 overtaken |-> FALSE,
                 stale |-> cached # NilInventory /\ preInval]
       IN  /\ meta' = [meta EXCEPT ![c] = m]
           /\ IF cached # NilInventory
              THEN /\ Return(c, cached, NilErr)
                   /\ idx' = [idx EXCEPT ![c] = 0]
                   /\ hits' = IF hits < MaxHits THEN hits + 1 ELSE hits
              ELSE /\ pc' = [pc EXCEPT ![c] = "loop"]
                   /\ idx' = [idx EXCEPT ![c] = 1]
                   /\ ret' = [ret EXCEPT ![c] = NoReturn]
                   /\ UNCHANGED <<lastRet, hits>>
    /\ UNCHANGED <<engineVars, hostVars, memVars, cacheOpVars, libVars, cache, now, results, log, storedAt, preInval>>

\* the iteration without its select on ctx.Done()
BeginProbe_noPreCheck(c) ==
    /\ pc[c] = "loop"
    /\ idx[c] <= Len(detectors)
    /\ pc' = [pc EXCEPT ![c] = "probe"]
    /\ meta' = [meta EXCEPT ![c].probeAt = now]
    /\ UNCHANGED <<engineVars, hostVars, memVars, cacheOpVars, libVars, cache, now, idx, ctx, results, log, ret,
                   ghostVars>>

\* the abort at the select clears the cache on its way out
BeginProbe_abortClearsCache(c) ==
    /\ pc[c] = "loop"
    /\ idx[c] <= Len(detectors)
    /\ IF ctx[c].err # NilErr
       THEN /\ Return(c, NilInventory, ctx[c].err)
            /\ cache' = (IF cache # NilCache THEN Invalidate ELSE cache)
            /\ UNCHANGED meta
       ELSE /\ pc' = [pc EXCEPT ![c] = "probe"]
            /\ meta' = [meta EXCEPT ![c].probeAt = now]
            /\ UNCHANGED <<ret, lastRet, cache>>
    /\ UNCHANGED <<engineVars, hostVars, memVars, cacheOpVars, libVars, now, idx, ctx, results, log,
                   storedAt, hits, invalidated, preInval>>

\* DetectAll, top of an iteration: select on ctx.Done()
BeginProbe(c) ==
    /\ pc[c] = "loop"
    /\ idx[c] <= Len(detectors)
    /\ IF ctx[c].err # NilErr
       THEN /\ Return(c, NilInventory, ctx[c].err)
            /\ UNCHANGED meta
       ELSE /\ pc' = [pc EXCEPT ![c] = "probe"]
            /\ meta' = [meta EXCEPT ![c].probeAt = now]
            /\ UNCHANGED <<ret, lastRet>>
    /\ UNCHANGED <<engineVars, hostVars, memVars, cacheOpVars, libVars, cache, now, idx, ctx, results, log,
                   storedAt, hits, invalidated, preInval>>

\* the detection a detector returned is kept also when it came with an error
EndProbe_keepsEvidenceOfFailedProbe(c) ==
    /\ pc[c] = "probe"
    /\ \E out \in Detect(detectors[idx[c]], ctx[c].err) :
          /\ log' = [log EXCEPT ![c] = Append(@, [det |-> detectors[idx[c]],
                                                   detection |-> out.detection,
                                                   err |-> out.err])]
          /\ IF out.err # NilErr /\ IsContextErr(out.err)
             THEN /\ Return(c, NilInventory, out.err)
                  /\ UNCHANGED <<idx, results>>
             ELSE /\ pc' = [pc EXCEPT ![c] = "loop"]
                  /\ idx' = [idx EXCEPT ![c] = @ + 1]
                  /\ results' = [results EXCEPT ![c] =
                        IF out.detection = NoDetection
                        THEN @ ELSE Keep(@, out.detection)]
                  /\ UNCHANGED <<ret, lastRet>>
    /\ UNCHANGED <<engineVars, hostVars, memVars, cacheOpVars, libVars, cache, now, ctx, meta, storedAt, hits, invalidated, preInval>>

\* DetectAll, rest of the iteration: detector.Detect(ctx) returns and the
\* engine propagates a context error, skips another error or a nil
\* detection, and otherwise keeps the detection if it beats the existing one
EndProbe(c) ==
    /\ pc[c] = "probe"
    /\ \E out \in Detect(detectors[idx[c]], ctx[c].err) :
          /\ log' = [log EXCEPT ![c] = Append(@, [det |-> detectors[idx[c]],
                                                   detection |-> out.detection,
                                                   err |-> out.err])]
          /\ IF out.err # NilErr /\ IsContextErr(out.err)
             THEN /\ Return(c, NilInventory, out.err)
                  /\ UNCHANGED <<idx, results>>
             ELSE /\ pc' = [pc EXCEPT ![c] = "loop"]
                  /\ idx' = [idx EXCEPT ![c] = @ + 1]
                  /\ results' = [results EXCEPT ![c] =
                        IF out.err # NilErr \/ out.detection = NoDetection
                        THEN @ ELSE Keep(@, out.detection)]
                  /\ UNCHANGED <<ret, lastRet>>
    /\ UNCHANGED <<engineVars, hostVars, memVars, cacheOpVars, libVars, cache, now, ctx, meta, storedAt, hits, invalidated, preInval>>

\* DetectAll, after the loop: buildInventory, cache.Set, return
Finish(c) ==
    /\ pc[c] = "loop"
    /\ idx[c] > Len(detectors)
    /\ \E hostOK \in HostnameOutcomes :
          LET inventory == buildInventory(results[c], hostOK)
          IN  /\ Return(c, inventory, NilErr)
              /\ cache' = CacheWrite(inventory)
              /\ IF cache # NilCache
                 THEN storedAt' = now /\ hits' = 0 /\ preInval' = meta[c].overtaken
                 ELSE UNCHANGED <<storedAt, hits, preInval>>
    /\ UNCHANGED <<engineVars, hostVars, memVars, cacheOpVars, libVars, now, idx, ctx, results, log, meta, invalidated>>

\* The caller has the return values; the locals of the call (the context,
\* the results map, the loop position) are gone with its frame.
Leave(c) ==
    /\ pc[c] = "done"
    /\ pc' = [pc EXCEPT ![c] = "idle"]
    /\ idx' = [idx EXCEPT ![c] = 0]
    /\ ctx' = [ctx EXCEPT ![c] = Background]
    /\ results' = [results EXCEPT ![c] = EmptyResults]
    /\ log' = [log EXCEPT ![c] = <<>>]
    /\ ret' = [ret EXCEPT ![c] = NoReturn]
    /\ meta' = [meta EXCEPT ![c] = NoMeta]
    /\ UNCHANGED <<engineVars, hostVars, memVars, cacheOpVars, libVars, cache, now, ghostVars>>

\* Engine.InvalidateCache
InvalidateCache ==
    /\ cache' = (IF cache # NilCache THEN Invalidate ELSE cache)
    /\ invalidated' = TRUE
    /\ preInval' = FALSE
    /\ meta' = [c \in Callers |->
                 IF InFlight(c) THEN [meta[c] EXCEPT !.overtaken = TRUE] ELSE meta[c]]
    /\ UNCHANGED <<engineVars, hostVars, memVars, cacheOpVars, libVars, now, pc, idx, ctx, results, log, ret,
                   lastRet, storedAt, hits>>

\* a context is done from the moment err is set; a probe that is inside
\* Detect at that moment is the probe that blocked past it
Trigger(c, err) ==
    [ctx EXCEPT ![c].err = err]
Blocked(c) ==
    IF pc[c] = "probe"
    THEN [meta EXCEPT ![c].blocked = idx[c], ![c].doneAt = now]
    ELSE [meta EXCEPT ![c].doneAt = now]

\* the cancel function of a context.WithTimeout context, called during the call
Cancel(c) ==
    /\ InFlight(c)
    /\ ctx[c].deadline # NoDeadline
    /\ ctx[c].err = NilErr
    /\ ctx' = Trigger(c, Canceled)
    /\ meta' = Blocked(c)
    /\ UNCHANGED <<engineVars, hostVars, memVars, cacheOpVars, libVars, cache, now, pc, idx, results, log, ret, ghostVars>>

\* Whether detector d can still be inside Detect, waiting, when elapsed
\* has passed since Detect was called and the caller's context has error
\* ctxErr.  KubernetesAPIDetector waits for the HTTP response under the
\* caller's context narrowed by its timeout; SwarmPortDetector waits for the
\* dial under its timeout alone; slowDetector and wrappingDetector wait
\* until the context is done.  The file and environment detectors do not
\* wait: they take the time the system gives them.
Waiting(d, ctxErr, elapsed) ==
    CASE d.kind = "KubernetesAPI" -> ctxErr = NilErr /\ elapsed < ProbeTimeout
      [] d.kind = "SwarmPort" -> elapsed < ProbeTimeout
      [] d.kind = "slow" -> ctxErr = NilErr
      [] d.kind = "wrapping" -> ctxErr = NilErr
      [] OTHER -> TRUE

\* the clock advances, while every detector inside Detect is still waiting;
\* the deadlines it reaches fire
Tick ==
    /\ now < MaxTime
    /\ \A c \in Callers :
          pc[c] = "probe"
          => Waiting(detectors[idx[c]], ctx[c].err, now - meta[c].probeAt)
    /\ now' = now + 1
    /\ LET due(c) == /\ InFlight(c)
                     /\ ctx[c].err = NilErr
                     /\ ctx[c].deadline # NoDeadline
                     /\ ctx[c].deadline <= now + 1
       IN  /\ ctx' = [c \in Callers |->
                        IF due(c) THEN [ctx[c] EXCEPT !.err = DeadlineExceeded]
                        ELSE ctx[c]]
           /\ meta' = [c \in Callers |->
                        IF due(c) /\ pc[c] = "probe"
                        THEN [meta[c] EXCEPT !.blocked = idx[c], !.doneAt = now + 1]
                        ELSE IF due(c) THEN [meta[c] EXCEPT !.doneAt = now + 1]
                        ELSE meta[c]]
    /\ UNCHANGED <<engineVars, hostVars, memVars, cacheOpVars, libVars, cache, pc, idx, results, log, ret, ghostVars>>

NoneDone == \A c \in Callers : pc[c] # "done"

\* ------------------------------------------ DetectionCache under its mutex
\* an RLock that does not wait for the writer
CanRLock_ignoresWriter(t) == TRUE

\* c.mu.RLock() returns when no goroutine holds the write lock
CanRLock(t) == mu.writer = 0

\* c.mu.Lock() returns when no goroutine holds the lock in either mode
CanLock(t) == mu.writer = 0 /\ mu.readers = {}

At(t, p) == thr[t].pc = p
Goto(t, p) == [thr EXCEPT ![t].pc = p]

\* Get: c.mu.RLock()
GetRLock(t) ==
    /\ At(t, "idle")
    /\ cache # NilCache
    /\ CanRLock(t)
    /\ mu' = [mu EXCEPT !.readers = @ \cup {t}]
    /\ thr' = Goto(t, "get-inventory")
    /\ UNCHANGED <<engineVars, hostVars, memVars, callVars, ghostVars, libVars, cache, now, stored, latest>>

\* Get: if c.inventory == nil { return nil }
GetInventoryNil(t) ==
    /\ At(t, "get-inventory")
    /\ thr' = [thr EXCEPT ![t].inv = cache.inventory,
                          ![t].at = now,
                          ![t].pc = IF cache.inventory = NilInventory
                                    THEN "get-return" ELSE "get-expired"]
    /\ UNCHANGED <<engineVars, hostVars, memVars, callVars, ghostVars, libVars, cache, now, mu, stored, latest>>

\* the expiry test off by one: an entry exactly ttl old is expired
GetExpired_atTTL(t) ==
    /\ At(t, "get-expired")
    /\ thr' = [thr EXCEPT ![t].ts = cache.timestamp,
                          ![t].at = now,
                          ![t].pc = IF now - cache.timestamp >= cache.ttl
                                    THEN "get-return" ELSE "get-value"]
    /\ UNCHANGED <<engineVars, hostVars, memVars, callVars, ghostVars, libVars, cache, now, mu, stored, latest>>

\* Get: if time.Since(c.timestamp) > c.ttl { return nil }
GetExpired(t) ==
    /\ At(t, "get-expired")
    /\ thr' = [thr EXCEPT ![t].ts = cache.timestamp,
                          ![t].at = now,
                          ![t].pc = IF now - cache.timestamp > cache.ttl
                                    THEN "get-return" ELSE "get-value"]
    /\ UNCHANGED <<engineVars, hostVars, memVars, callVars, ghostVars, libVars, cache, now, mu, stored, latest>>

\* Get: return c.inventory
GetValue(t) ==
    /\ At(t, "get-value")
    /\ thr' = [thr EXCEPT ![t].result = cache.inventory, ![t].pc = "get-return"]
    /\ UNCHANGED <<engineVars, hostVars, memVars, callVars, ghostVars, libVars, cache, now, mu, stored, latest>>

\* Get: the deferred c.mu.RUnlock(); the caller has the return value
GetRUnlock(t) ==
    /\ At(t, "get-return")
    /\ mu' = [mu EXCEPT !.readers = @ \ {t}]
    /\ thr' = [thr EXCEPT ![t] = IdleThread]
    /\ UNCHANGED <<engineVars, hostVars, memVars, callVars, ghostVars, libVars, cache, now, stored, latest>>

\* Set(inv): c.mu.Lock()
SetLock(t) ==
    /\ At(t, "idle")
    /\ cache # NilCache
    /\ CanLock(t)
    /\ mu' = [mu EXCEPT !.writer = t]
    /\ \E inv \in CacheRecords :
          thr' = [thr EXCEPT ![t].inv = inv, ![t].pc = "set-inventory"]
    /\ UNCHANGED <<engineVars, hostVars, memVars, callVars, ghostVars, libVars, cache, now, stored, latest>>

\* Set: c.inventory = inv
SetInventory(t) ==
    /\ At(t, "set-inventory")
    /\ cache' = [cache EXCEPT !.inventory = thr[t].inv]
    /\ thr' = Goto(t, "set-timestamp")
    /\ UNCHANGED <<engineVars, hostVars, memVars, callVars, ghostVars, libVars, now, mu, stored, latest>>

\* Set: c.timestamp = time.Now()
SetTimestamp(t) ==
    /\ At(t, "set-timestamp")
    /\ cache' = [cache EXCEPT !.timestamp = now]
    /\ stored' = stored \cup {[inventory |-> thr[t].inv, timestamp |-> now]}
    /\ latest' = [inventory |-> thr[t].inv, at |-> now, invalidated |-> FALSE]
    /\ thr' = Goto(t, "unlock")
    /\ UNCHANGED <<engineVars, hostVars, memVars, callVars, ghostVars, libVars, now, mu>>

\* Invalidate: c.mu.Lock()
InvalidateLock(t) ==
    /\ At(t, "idle")
    /\ cache # NilCache
    /\ CanLock(t)
    /\ mu' = [mu EXCEPT !.writer = t]
    /\ thr' = Goto(t, "invalidate-inventory")
    /\ UNCHANGED <<engineVars, hostVars, memVars, callVars, ghostVars, libVars, cache, now, stored, latest>>

\* Invalidate: c.inventory = nil
InvalidateInventory(t) ==
    /\ At(t, "invalidate-inventory")
    /\ cache' = [cache EXCEPT !.inventory = NilInventory]
    /\ latest' = [latest EXCEPT !.invalidated = TRUE]
    /\ thr' = Goto(t, "unlock")
    /\ UNCHANGED <<engineVars, hostVars, memVars, callVars, ghostVars, libVars, now, mu, stored>>

\* Set, Invalidate: the deferred c.mu.Unlock()
Unlock(t) ==
    /\ At(t, "unlock")
    /\ mu' = [mu EXCEPT !.writer = 0]
    /\ thr' = [thr EXCEPT ![t] = IdleThread]
    /\ UNCHANGED <<engineVars, hostVars, memVars, callVars, ghostVars, libVars, cache, now, stored, latest>>

\* Goroutines call Get, Set and Invalidate of one cache at the same time,
\* while the clock advances.
CacheInit == Init /\ config.EnableCaching /\ config.Detectors = <<>>

CacheNext ==
    \/ \E t \in Threads : GetRLock(t)
    \/ \E t \in Threads : GetInventoryNil(t)
    \/ \E t \in Threads : GetExpired(t)
    \/ \E t \in Threads : GetValue(t)
    \/ \E t \in Threads : GetRUnlock(t)
    \/ \E t \in Threads : SetLock(t)
    \/ \E t \in Threads : SetInventory(t)
    \/ \E t \in Threads : SetTimestamp(t)
    \/ \E t \in Threads : InvalidateLock(t)
    \/ \E t \in Threads : InvalidateInventory(t)
    \/ \E t \in Threads : Unlock(t)
    \/ Tick

CacheSpec == CacheInit /\ [][CacheNext]_vars

\* ------------------------------------------------------- package criprof
\* New(): getImageFormat, getHostname, getContainerID, os.Getpid,
\* getRuntime and getScheduler are called, every time; neither the default
\* engine nor its cache is consulted.
New ==
    /\ Quiescent
    /\ \E found \in LegacyDetection :
          lib' = [lib EXCEPT
                    !.out = [fn |-> "New",
                             inventory |-> [PID |-> Getpid,
                                            Runtime |-> found.Runtime,
                                            Scheduler |-> found.Scheduler,
                                            ImageFormat |-> found.ImageFormat,
                                            Hostname |-> "host",
                                            ID |-> getContainerID],
                             err |-> NilErr],
                    !.newGap = IF lib.newAt = -1 THEN -1 ELSE now - lib.newAt,
                    !.newAt = now,
                    !.newDetected = TRUE,
                    !.newInval = lib.newAt # -1 /\ lib.invalSinceNew,
                    !.invalSinceNew = FALSE]
    /\ UNCHANGED <<engineVars, hostVars, memVars, callVars, ghostVars, cacheOpVars, cache, now>>

\* NewWithContext: engineOnce.Do(initDefaultEngine)
initDefaultEngine ==
    /\ Quiescent
    /\ ~lib.engine
    /\ lib' = [lib EXCEPT !.engine = TRUE]
    /\ UNCHANGED <<engineVars, hostVars, memVars, callVars, ghostVars, cacheOpVars, cache, now>>

\* NewWithContext: DetectAll has returned (inv, err); the fallback
\* inventory is returned if err != nil, inv otherwise
NewWithContextReturn(c) ==
    /\ pc[c] = "done"
    /\ lib' = [lib EXCEPT !.out = [fn |-> "NewWithContext",
                                   inventory |-> IF ret[c].err # NilErr
                                                 THEN FallbackInventory
                                                 ELSE ret[c].inventory,
                                   err |-> ret[c].err]]
    /\ pc' = [pc EXCEPT ![c] = "idle"]
    /\ idx' = [idx EXCEPT ![c] = 0]
    /\ ctx' = [ctx EXCEPT ![c] = Background]
    /\ results' = [results EXCEPT ![c] = EmptyResults]
    /\ log' = [log EXCEPT ![c] = <<>>]
    /\ ret' = [ret EXCEPT ![c] = NoReturn]
    /\ meta' = [meta EXCEPT ![c] = NoMeta]
    /\ UNCHANGED <<engineVars, hostVars, memVars, cacheOpVars, cache, now, ghostVars>>

\* criprof.InvalidateCache: if defaultEngine != nil { defaultEngine.InvalidateCache() }
criprofInvalidateCache ==
    /\ cache' = (IF lib.engine /\ cache # NilCache THEN Invalidate ELSE cache)
    /\ invalidated' = (IF lib.engine THEN TRUE ELSE invalidated)
    /\ preInval' = (IF lib.engine THEN FALSE ELSE preInval)
    /\ lib' = [lib EXCEPT !.invalSinceNew = TRUE]
    /\ UNCHANGED <<engineVars, hostVars, memVars, cacheOpVars, now, pc, idx, ctx, results, log, ret,
                   meta, lastRet, storedAt, hits>>

\* the package as imported: the default engine to be, its cache empty
LibInit ==
    /\ config = DefaultConfig
    /\ \E engine \in NewEngine(config) :
          /\ detectors = engine.detectors
          /\ cache = engine.cache
    /\ now = 0
    /\ pc = [c \in Callers |-> "idle"]
    /\ idx = [c \in Callers |-> 0]
    /\ ctx = [c \in Callers |-> Background]
    /\ results = [c \in Callers |-> EmptyResults]
    /\ log = [c \in Callers |-> <<>>]
    /\ ret = [c \in Callers |-> NoReturn]
    /\ meta = [c \in Callers |-> NoMeta]
    /\ lastRet = NoLast
    /\ storedAt = -1
    /\ hits = 0
    /\ invalidated = FALSE
    /\ preInval = FALSE
    /\ thr = [t \in Threads |-> IdleThread]
    /\ mu = Unlocked
    /\ stored = {}
    /\ latest = NoSet
    /\ lib = NoLib
    /\ host = NoHost
    /\ mem = NoMem

\* A single goroutine uses the package: New, NewWithContext (the default
\* engine's DetectAll between initDefaultEngine and NewWithContextReturn)
\* and InvalidateCache, one call at a time.
LibNext ==
    \/ New
    \/ initDefaultEngine
    \/ \E c \in SeqCallers : lib.engine /\ Call(c)
    \/ \E c \in SeqCallers : BeginProbe(c)
    \/ \E c \in SeqCallers : EndProbe(c)
    \/ \E c \in SeqCallers : Finish(c)
    \/ \E c \in SeqCallers : Cancel(c)
    \/ \E c \in SeqCallers : NewWithContextReturn(c)
    \/ (Quiescent /\ criprofInvalidateCache)
    \/ (NoneDone /\ Tick)

LibSpec == LibInit /\ [][LibNext]_vars

\* --------------------------------------------------- functions of the host
\* IsContainer()
CallIsContainer ==
    /\ host' = [host EXCEPT !.out = [NoCall EXCEPT !.fn = "IsContainer",
                                                   !.container = IsContainer(host.on)]]
    /\ UNCHANGED <<engineVars, memVars, callVars, ghostVars, cacheOpVars, libVars, cache, now>>

\* New(): f, _ := getImageFormat(); ImageFormat: f
CallGetImageFormat ==
    /\ host' = [host EXCEPT !.out = [NoCall EXCEPT !.fn = "getImageFormat",
                                                   !.format = getImageFormat(host.on).format]]
    /\ UNCHANGED <<engineVars, memVars, callVars, ghostVars, cacheOpVars, libVars, cache, now>>

\* (&DockerFileDetector{fs: fs}).Detect(ctx)
CallDockerFileDetect ==
    /\ host' = [host EXCEPT !.out = [NoCall EXCEPT !.fn = "DockerFileDetector.Detect",
                                                   !.detection = DockerFileDetect(DockerFileDetector, host.on)]]
    /\ UNCHANGED <<engineVars, memVars, callVars, ghostVars, cacheOpVars, libVars, cache, now>>

\* environMap()
CallEnvironMap ==
    /\ host' = [host EXCEPT !.out = [NoCall EXCEPT !.fn = "environMap",
                                                   !.env = environMap(host.on.environ)]]
    /\ UNCHANGED <<engineVars, memVars, callVars, ghostVars, cacheOpVars, libVars, cache, now>>

\* the process starts on any of the hosts
HostInit ==
    /\ config = DefaultConfig
    /\ \E engine \in NewEngine(config) :
          /\ detectors = engine.detectors
          /\ cache = engine.cache
    /\ now = 0
    /\ pc = [c \in Callers |-> "idle"]
    /\ idx = [c \in Callers |-> 0]
    /\ ctx = [c \in Callers |-> Background]
    /\ results = [c \in Callers |-> EmptyResults]
    /\ log = [c \in Callers |-> <<>>]
    /\ ret = [c \in Callers |-> NoReturn]
    /\ meta = [c \in Callers |-> NoMeta]
    /\ lastRet = NoLast
    /\ storedAt = -1
    /\ hits = 0
    /\ invalidated = FALSE
    /\ preInval = FALSE
    /\ thr = [t \in Threads |-> IdleThread]
    /\ mu = Unlocked
    /\ stored = {}
    /\ latest = NoSet
    /\ lib = NoLib
    /\ \E h \in Hosts : host = [on |-> h, out |-> NoCall]
    /\ mem = NoMem

HostNext ==
    \/ CallIsContainer
    \/ CallGetImageFormat
    \/ CallDockerFileDetect
    \/ CallEnvironMap

HostSpec == HostInit /\ [][HostNext]_vars

\* ------------------------------------------------------ concurrent use
\* the engine shared by the goroutines: caching enabled, one detector
SharedConfig ==
    [Detectors |-> <<priorityDetector(1, 50)>>, EnableCaching |-> TRUE, CacheTTL |-> MaxTTL]

\* NewEngine(SharedConfig) has returned; no call has been made
SharedInit ==
    /\ config = SharedConfig
    /\ \E engine \in NewEngine(config) :
          /\ detectors = engine.detectors
          /\ cache = engine.cache
    /\ now = 0
    /\ pc = [c \in Callers |-> "idle"]
    /\ idx = [c \in Callers |-> 0]
    /\ ctx = [c \in Callers |-> Background]
    /\ results = [c \in Callers |-> EmptyResults]
    /\ log = [c \in Callers |-> <<>>]
    /\ ret = [c \in Callers |-> NoReturn]
    /\ meta = [c \in Callers |-> NoMeta]
    /\ lastRet = NoLast
    /\ storedAt = -1
    /\ hits = 0
    /\ invalidated = FALSE
    /\ preInval = FALSE
    /\ thr = [t \in Threads |-> IdleThread]
    /\ mu = Unlocked
    /\ stored = {}
    /\ latest = NoSet
    /\ lib = NoLib
    /\ host = NoHost
    /\ mem = NoMem

\* Several goroutines call DetectAll and one calls InvalidateCache, in any
\* interleaving of the cache read, the iterations and the store; the methods
\* of the cache are atomic under its mutex.  The calls overlap within one
\* clock unit: the clock does not advance.
SharedNext ==
    \/ \E c \in Callers : Call(c)
    \/ \E c \in Callers : BeginProbe(c)
    \/ \E c \in Callers : EndProbe(c)
    \/ \E c \in Callers : Finish(c)
    \/ \E c \in Callers : Leave(c)
    \/ InvalidateCache

SharedSpec == SharedInit /\ [][SharedNext]_vars

\* ------------------------------------------- slices and records as objects
\* mem.array is the backing array of the caller's Detectors slice;
\* engine.detectors of every engine built from that slice is a slice of
\* the same array.  mem.heap is the Inventory objects allocated by
\* buildInventory, addressed by position; the cache and the callers hold
\* addresses.

\* NewEngine(EngineConfig{Detectors: slice}): engine.detectors is assigned
\* the caller's slice and sorted in place.  passed and returned are the
\* slice before and after the call; order is what the engine's roster was
\* when NewEngine returned, ran the order of its last run.
SliceNewEngine ==
    /\ Len(mem.engines) < MaxEngines
    /\ \E sorted \in SortSlice(mem.array) :
          mem' = [mem EXCEPT !.array = sorted,
                             !.passed = mem.array,
                             !.returned = sorted,
                             !.engines = Append(@, [order |-> sorted, ran |-> <<>>])]
    /\ UNCHANGED <<engineVars, hostVars, callVars, ghostVars, cacheOpVars, libVars, cache, now>>

\* the caller assigns to an element of its slice: slice[i] = d
SliceStore ==
    /\ mem.engines # <<>>
    /\ \E i \in 1..Len(mem.array), d \in {DockerFileDetector, KubernetesAPIDetector} :
          /\ mem.array[i] # d
          /\ mem' = [mem EXCEPT !.array[i] = d]
    /\ UNCHANGED <<engineVars, hostVars, callVars, ghostVars, cacheOpVars, libVars, cache, now>>

\* DetectAll of engine e: detectors := e.detectors copies the slice header;
\* the loop ranges over the shared array
SliceDetectAll ==
    /\ \E e \in 1..Len(mem.engines) :
          mem' = [mem EXCEPT !.engines[e].ran = mem.array]
    /\ UNCHANGED <<engineVars, hostVars, callVars, ghostVars, cacheOpVars, libVars, cache, now>>

\* the records buildInventory builds here: nothing detected, Docker detected
BuiltInventories ==
    { buildInventory(EmptyResults, TRUE),
      buildInventory([EmptyResults EXCEPT ![DetectionTypeRuntime] =
                         Detection(DetectionTypeRuntime, "docker", 95, "docker-file-marker")],
                     TRUE) }

\* DetectAll of an engine with a cache: a hit returns the pointer the cache
\* holds; a miss allocates the record in buildInventory, hands the pointer
\* to cache.Set and returns the same pointer.  got is the record as the
\* caller received it, built the record as the engine built it.
PtrDetectAll(c) ==
    /\ mem.held[c] = 0
    /\ IF mem.cachePtr # 0
       THEN mem' = [mem EXCEPT !.held[c] = mem.cachePtr,
                               !.got[c] = mem.heap[mem.cachePtr]]
       ELSE /\ Len(mem.heap) < MaxObjects
            /\ \E inventory \in BuiltInventories :
                  mem' = [mem EXCEPT !.heap = Append(@, inventory),
                                     !.built = Append(@, inventory),
                                     !.cachePtr = Len(mem.heap) + 1,
                                     !.held[c] = Len(mem.heap) + 1,
                                     !.got[c] = inventory]
    /\ UNCHANGED <<engineVars, hostVars, callVars, ghostVars, cacheOpVars, libVars, cache, now>>

\* the caller modifies the record it was handed: inv.Runtime = "modified"
PtrModify(c) ==
    /\ mem.held[c] > 0
    /\ mem.heap[mem.held[c]].Runtime # "modified"
    /\ mem' = [mem EXCEPT !.heap[mem.held[c]].Runtime = "modified"]
    /\ UNCHANGED <<engineVars, hostVars, callVars, ghostVars, cacheOpVars, libVars, cache, now>>

\* the caller drops the record
PtrDrop(c) ==
    /\ mem.held[c] # 0
    /\ mem' = [mem EXCEPT !.held[c] = 0, !.got[c] = NilInventory]
    /\ UNCHANGED <<engineVars, hostVars, callVars, ghostVars, cacheOpVars, libVars, cache, now>>

\* InvalidateCache: c.inventory = nil
PtrInvalidateCache ==
    /\ mem.cachePtr # 0
    /\ mem' = [mem EXCEPT !.cachePtr = 0]
    /\ UNCHANGED <<engineVars, hostVars, callVars, ghostVars, cacheOpVars, libVars, cache, now>>

\* the caller has built its Detectors slice
SliceInit ==
    /\ config = SharedConfig
    /\ \E engine \in NewEngine(config) :
          /\ detectors = engine.detectors
          /\ cache = engine.cache
    /\ now = 0
    /\ pc = [c \in Callers |-> "idle"]
    /\ idx = [c \in Callers |-> 0]
    /\ ctx = [c \in Callers |-> Background]
    /\ results = [c \in Callers |-> EmptyResults]
    /\ log = [c \in Callers |-> <<>>]
    /\ ret = [c \in Callers |-> NoReturn]
    /\ meta = [c \in Callers |-> NoMeta]
    /\ lastRet = NoLast
    /\ storedAt = -1
    /\ hits = 0
    /\ invalidated = FALSE
    /\ preInval = FALSE
    /\ thr = [t \in Threads |-> IdleThread]
    /\ mu = Unlocked
    /\ stored = {}
    /\ latest = NoSet
    /\ lib = NoLib
    /\ host = NoHost
    /\ \E r \in SmallRosters \ {<<>>} : mem = [NoMem EXCEPT !.array = r]

\* One goroutine builds engines from its slice, stores into the slice and
\* runs the engines.
SliceNext ==
    \/ SliceNewEngine
    \/ SliceStore
    \/ SliceDetectAll

SliceSpec == SliceInit /\ [][SliceNext]_vars

\* The goroutines call DetectAll on the shared engine and modify or drop
\* the records they were handed; one calls InvalidateCache.
RecordNext ==
    \/ \E c \in Callers : PtrDetectAll(c)
    \/ \E c \in Callers : PtrModify(c)
    \/ \E c \in Callers : PtrDrop(c)
    \/ PtrInvalidateCache

RecordSpec == SharedInit /\ [][RecordNext]_vars

\* A single goroutine uses the engine: one call at a time, InvalidateCache
\* between calls.
Next ==
    \/ \E c \in SeqCallers : Call(c)
    \/ \E c \in SeqCallers : BeginProbe(c)
    \/ \E c \in SeqCallers : EndProbe(c)
    \/ \E c \in SeqCallers : Finish(c)
    \/ \E c \in SeqCallers : Cancel(c)
    \/ \E c \in SeqCallers : Leave(c)
    \/ (Quiescent /\ InvalidateCache)
    \/ (NoneDone /\ Tick)

Spec == Init /\ [][Next]_vars

\* ============================================================== properties
\* What the properties read off a call: whether caching was configured,
\* whether the call has returned, the detectors it executed in order, and
\* the evidence it was given.
CachingEnabled == config.EnableCaching
Completed(c) == pc[c] = "done"
Ran(c) == [i \in 1..Len(log[c]) |-> log[c][i].det]
ReturnedRecord(r) == r.inventory # NilInventory /\ r.err = NilErr
\* the call computed its result: it was not served from the cache and it
\* returned a record
RanToCompletion(c) == Completed(c) /\ ~meta[c].served /\ ReturnedRecord(ret[c])
\* time from the caching of the latest record to the start of call c
SinceCached(c) == meta[c].start - meta[c].storedAt
\* time from the return of the previous call to the start of call c
SincePrevious(c) == meta[c].start - meta[c].prev.at
\* two returns hand back the same inventory and the same error
SameReturn(r, q) == r.inventory = q.inventory /\ r.err = q.err

\* the positions in the call's log where a detector produced evidence of
\* type t: a detection returned with a nil error
EvidenceAt(c, t) ==
    {i \in 1..Len(log[c]) : /\ log[c][i].err = NilErr
                            /\ log[c][i].detection # NoDetection
                            /\ log[c][i].detection.Type = t}

\* among them, the earliest one of the highest confidence
Best(c, t) ==
    CHOOSE i \in EvidenceAt(c, t) :
        \A j \in EvidenceAt(c, t) :
            \/ log[c][i].detection.Confidence > log[c][j].detection.Confidence
            \/ /\ log[c][i].detection.Confidence = log[c][j].detection.Confidence
               /\ i <= j

\* the field of an inventory that holds the value of type t
Field(inv, t) ==
    CASE t = DetectionTypeRuntime -> inv.Runtime
      [] t = DetectionTypeScheduler -> inv.Scheduler
      [] t = DetectionTypeImageFormat -> inv.ImageFormat

\* the position at which detector d was registered in config.Detectors
Registered(d) ==
    CHOOSE i \in 1..Len(config.Detectors) : config.Detectors[i] = d

\* C1 as stated: with caching enabled, of two consecutive DetectAll calls
\* with no InvalidateCache between them, the first returning a record and
\* the second starting no more than the TTL after the first returned, the
\* second returns the identical record and executes no probe.
C1_WithinTTLOfPreviousCall ==
    \A c \in Callers :
        ( /\ Completed(c)
          /\ CachingEnabled
          /\ ReturnedRecord(meta[c].prev)
          /\ ~meta[c].inval
          /\ SincePrevious(c) <= config.CacheTTL )
        => /\ SameReturn(ret[c], meta[c].prev)
           /\ log[c] = <<>>

\* C1, amended: with caching enabled, a DetectAll call that follows a call
\* which returned a record, with no InvalidateCache between the two and no
\* more than the TTL elapsed since that record was cached, returns the
\* identical record with a nil error and executes no probe.
C1_SecondCallIsCached ==
    \A c \in Callers :
        ( /\ Completed(c)
          /\ CachingEnabled
          /\ ReturnedRecord(meta[c].prev)
          /\ ~meta[c].inval
          /\ SinceCached(c) <= config.CacheTTL )
        => /\ SameReturn(ret[c], meta[c].prev)
           /\ log[c] = <<>>

\* a second call that starts exactly TTL > 0 after the record was cached
\* and returns that record, which carries a detected runtime
C1_Witness ==
    \E c \in Callers :
        /\ Completed(c)
        /\ CachingEnabled
        /\ ReturnedRecord(meta[c].prev)
        /\ ~meta[c].inval
        /\ config.CacheTTL > 0
        /\ SinceCached(c) = config.CacheTTL
        /\ SameReturn(ret[c], meta[c].prev)
        /\ ret[c].inventory.Runtime # "undetermined"
        /\ log[c] = <<>>

\* C2: with caching enabled, a DetectAll call that starts more than the TTL
\* after the record was cached is not served from the cache: it executes
\* the detectors in order, each at most once; unless its context is done it
\* returns a record, and when it returns a record it has executed every
\* detector of the roster exactly once, whatever the number of calls the
\* cache served in between.
C2_ExpiredCallRunsRoster ==
    \A c \in Callers :
        ( /\ Completed(c)
          /\ CachingEnabled
          /\ ReturnedRecord(meta[c].prev)
          /\ SinceCached(c) > config.CacheTTL )
        => /\ ~meta[c].served
           /\ Ran(c) = SubSeq(detectors, 1, Len(log[c]))
           /\ ctx[c].err = NilErr => ReturnedRecord(ret[c])
           /\ ReturnedRecord(ret[c]) => Ran(c) = detectors

\* a call after expiry that ran its whole roster of two detectors although
\* the cache had served two calls since the record was stored
C2_Witness ==
    \E c \in Callers :
        /\ Completed(c)
        /\ CachingEnabled
        /\ ReturnedRecord(meta[c].prev)
        /\ ~meta[c].inval
        /\ SinceCached(c) > config.CacheTTL
        /\ meta[c].hits >= 2
        /\ ReturnedRecord(ret[c])
        /\ Len(detectors) >= 2
        /\ Ran(c) = detectors

\* C3: a DetectAll call that follows InvalidateCache is not served from the
\* cache, also when the record cached before is within its TTL: unless its
\* context is done it returns a record, and when it returns a record it
\* has executed every detector of the roster.
C3_InvalidatedCallRunsRoster ==
    \A c \in Callers :
        (Completed(c) /\ meta[c].inval)
        => /\ ~meta[c].served
           /\ ctx[c].err = NilErr => ReturnedRecord(ret[c])
           /\ ReturnedRecord(ret[c]) => Ran(c) = detectors

\* a call right after InvalidateCache, started within the TTL of the record
\* the previous call returned, that executed both detectors of its roster
C3_Witness ==
    \E c \in Callers :
        /\ Completed(c)
        /\ CachingEnabled
        /\ meta[c].inval
        /\ ReturnedRecord(meta[c].prev)
        /\ SinceCached(c) <= config.CacheTTL
        /\ ReturnedRecord(ret[c])
        /\ Len(detectors) >= 2
        /\ Ran(c) = detectors

\* the detectors whose Detect waits: for the network, or for a timer
Blocking(d) == d.kind \in {"KubernetesAPI", "SwarmPort", "slow"}

\* C4: when the deadline of the supplied context passes while a probe is
\* blocked inside Detect, waiting for the network or for a timer, whichever
\* position of the roster the probe holds, DetectAll
\* returns the deadline error and no record.
C4_BlockedProbeYieldsDeadlineError ==
    \A c \in Callers :
        ( /\ Completed(c)
          /\ meta[c].blocked # 0
          /\ Blocking(detectors[meta[c].blocked])
          /\ ctx[c].err = DeadlineExceeded )
        => /\ ret[c].inventory = NilInventory
           /\ ret[c].err = DeadlineExceeded

\* C5: in a run that returns a record, the detection kept for each type is
\* the one of the highest confidence among the evidence the run produced
\* for that type, the earliest-executed one when several have that
\* confidence, and none when the run produced no evidence for the type.
C5_HighestConfidenceEarliestWins ==
    \A c \in Callers :
        RanToCompletion(c)
        => \A t \in DetectionType :
              results[c][t] = IF EvidenceAt(c, t) = {} THEN NoDetection
                              ELSE log[c][Best(c, t)].detection

\* a run in which two detectors produced runtime evidence of the same
\* confidence and different values, and the earlier one was kept
C5_Witness ==
    \E c \in Callers :
        /\ RanToCompletion(c)
        /\ \E i, j \in EvidenceAt(c, DetectionTypeRuntime) :
              /\ i < j
              /\ log[c][i].detection.Confidence = log[c][j].detection.Confidence
              /\ log[c][i].detection.Value # log[c][j].detection.Value
              /\ results[c][DetectionTypeRuntime] = log[c][i].detection

\* C6: the detectors a DetectAll call executes, one per step, are in
\* non-increasing priority order, and a run that returns a record has
\* executed exactly the detectors of the roster, in whatever order the
\* roster was registered.
C6_NonIncreasingPriority ==
    \A c \in Callers :
        /\ \A i, j \in 1..Len(log[c]) :
              i < j => log[c][i].det.Priority >= log[c][j].det.Priority
        /\ RanToCompletion(c)
           => /\ Len(log[c]) = Len(config.Detectors)
              /\ {log[c][i].det : i \in 1..Len(log[c])}
                   = {config.Detectors[i] : i \in 1..Len(config.Detectors)}

\* a completed run of a roster that was registered lowest priority first
C6_Witness ==
    \E c \in Callers :
        /\ RanToCompletion(c)
        /\ Len(config.Detectors) >= 2
        /\ config.Detectors[1].Priority < config.Detectors[2].Priority
        /\ Len(log[c]) = Len(config.Detectors)

C8_NoCachingRunsEveryTime ==
    ~CachingEnabled
    => /\ cache = NilCache
       /\ \A c \in Callers :
             Completed(c)
             => /\ ~meta[c].served
                /\ ctx[c].err = NilErr => ReturnedRecord(ret[c])
                /\ ReturnedRecord(ret[c]) => Ran(c) = detectors

\* without caching: a call that follows a call which returned a record and
\* an InvalidateCache, and that executed both detectors of its roster again
C8_Witness ==
    \E c \in Callers :
        /\ ~CachingEnabled
        /\ Completed(c)
        /\ ReturnedRecord(meta[c].prev)
        /\ meta[c].inval
        /\ ReturnedRecord(ret[c])
        /\ Len(detectors) >= 2
        /\ Ran(c) = detectors

\* C9: in a run that returns a record, the runtime, scheduler and
\* image_format fields each hold the value of the winning evidence of their
\* own type, or "undetermined" when the run produced no evidence of that
\* type; with the empty roster all three are "undetermined".
C9_FieldsFollowOwnType ==
    \A c \in Callers :
        RanToCompletion(c)
        => /\ \A t \in DetectionType :
                 Field(ret[c].inventory, t) =
                     IF EvidenceAt(c, t) = {} THEN "undetermined"
                     ELSE log[c][Best(c, t)].detection.Value
           /\ detectors = <<>>
              => \A t \in DetectionType : Field(ret[c].inventory, t) = "undetermined"

\* a run that found a scheduler and no image format: the scheduler field is
\* set, the other two fields stay "undetermined"
C9_Witness ==
    \E c \in Callers :
        /\ RanToCompletion(c)
        /\ EvidenceAt(c, DetectionTypeScheduler) # {}
        /\ EvidenceAt(c, DetectionTypeImageFormat) = {}
        /\ Len(log[c]) >= 2
        /\ ret[c].inventory.Scheduler = "kubernetes"
        /\ ret[c].inventory.ImageFormat = "undetermined"
        /\ ret[c].inventory.Runtime = "undetermined"

\* C10: once a detector has returned an error that is not a context error,
\* the call never returns that error; it ends without a record only by the
\* cancellation of its context, and when it returns, with the context not
\* done, it returns a record and a nil error after executing every
\* detector, with the fields reconciled from the other detectors' evidence.
C10_ProbeErrorDoesNotAbort ==
    \A c \in Callers :
        (\E i \in 1..Len(log[c]) : log[c][i].err = ErrProbe)
        => /\ ret[c].err # ErrProbe
           /\ (Completed(c) /\ ctx[c].err = NilErr)
              => /\ ReturnedRecord(ret[c])
                 /\ Ran(c) = detectors
                 /\ \A t \in DetectionType :
                       Field(ret[c].inventory, t) =
                           IF EvidenceAt(c, t) = {} THEN "undetermined"
                           ELSE log[c][Best(c, t)].detection.Value

\* a run whose first detector failed, handing back a detection with its
\* error, and whose second detector's evidence made it into the record
C10_Witness ==
    \E c \in Callers :
        /\ RanToCompletion(c)
        /\ Len(log[c]) = 2
        /\ log[c][1].err = ErrProbe
        /\ log[c][1].detection # NoDetection
        /\ log[c][2].err = NilErr
        /\ log[c][2].detection # NoDetection
        /\ ret[c].inventory.Runtime = log[c][2].detection.Value

\* errors.Is(err, target) for the errors of the model
ErrorsIs(err, target) == err = target \/ Unwrap(err) = target
\* a cancellation-class error: a context error, bare or wrapped
IsCancellationClass(err) ==
    ErrorsIs(err, Canceled) \/ ErrorsIs(err, DeadlineExceeded)

\* C11: when a detector returns a cancellation-class error, bare or
\* wrapped, that Detect call is the last of the run, and the call has
\* returned that error and no record.
C11_CancellationClassErrorAborts ==
    \A c \in Callers :
        \A i \in 1..Len(log[c]) :
            IsCancellationClass(log[c][i].err)
            => /\ i = Len(log[c])
               /\ Completed(c)
               /\ ret[c] = [inventory |-> NilInventory, err |-> log[c][i].err]

\* C12: a DetectAll call that has returned has returned either a record
\* and a nil error, or no record and context.Canceled or
\* context.DeadlineExceeded, never both and never neither; an error a
\* detector returned for a failure of its own is never the call's error.
C12_OnlyContextErrorsSurface ==
    \A c \in Callers :
        Completed(c)
        => /\ \/ /\ ret[c].inventory # NilInventory
                 /\ ret[c].err = NilErr
              \/ /\ ret[c].inventory = NilInventory
                 /\ ret[c].err \in {Canceled, DeadlineExceeded}
           /\ ret[c].err \notin {ErrProbe, WrappedCanceled, WrappedDeadlineExceeded}

\* a call in which a detector failed with an error of its own and which,
\* cancelled afterwards, returned context.Canceled and no record
C12_Witness ==
    \E c \in Callers :
        /\ Completed(c)
        /\ \E i \in 1..Len(log[c]) : log[c][i].err = ErrProbe
        /\ ret[c].inventory = NilInventory
        /\ ret[c].err = Canceled

\* the engine is about to start a detector: at the top of an iteration
AboutToProbe(c) == pc[c] = "loop" /\ idx[c] <= Len(detectors)

\* C13: when the context of a call is done at the moment the engine is
\* about to start a detector, the call's next step returns the context's
\* error and no record without executing that detector or a later one; and
\* a run that returns a record has executed the whole roster.
C13_PreCheckAbortsRun ==
    [][\A c \in Callers :
          /\ (AboutToProbe(c) /\ ctx[c].err # NilErr /\ pc'[c] # pc[c])
             => /\ pc'[c] = "done"
                /\ ret'[c] = [inventory |-> NilInventory, err |-> ctx[c].err]
                /\ log'[c] = log[c]
          /\ (pc'[c] = "done" /\ ~meta'[c].served /\ ReturnedRecord(ret'[c]))
             => Len(log'[c]) = Len(detectors)
      ]_vars

\* a call cancelled between its first and its second detector: the first
\* had produced runtime evidence, the second was not executed, and the
\* call returned the context's error and no record
C13_Witness ==
    \E c \in Callers :
        /\ Completed(c)
        /\ Len(log[c]) = 1
        /\ Len(detectors) = 2
        /\ log[c][1].err = NilErr
        /\ results[c][DetectionTypeRuntime] # NoDetection
        /\ ret[c] = [inventory |-> NilInventory, err |-> ctx[c].err]
        /\ ctx[c].err # NilErr

\* C14: a DetectAll call whose context was done before it returned, a
\* context cancelled before the call included, has returned a context
\* error and no record, for every roster and every state of the cache.
C14_TriggeredCallReturnsError ==
    \A c \in Callers :
        (Completed(c) /\ ctx[c].err # NilErr)
        => /\ ret[c].inventory = NilInventory
           /\ ret[c].err \in {Canceled, DeadlineExceeded}

\* C15: under every interleaving of Get, Set and Invalidate calls of
\* several goroutines, the value a Get is about to return is either nil or
\* the record of one completed Set, the timestamp the Get compared was
\* written by that same Set, and no more than the ttl had passed since it
\* at the moment of the comparison.
C15_GetReturnsOneSetsRecord ==
    \A t \in Threads :
        (At(t, "get-return") /\ thr[t].result # NilInventory)
        => \E w \in stored :
              /\ w.inventory = thr[t].result
              /\ w.timestamp = thr[t].ts
              /\ thr[t].at - w.timestamp <= cache.ttl

\* a Get that holds the read lock alone and is about to return a record
\* stored at an earlier time, after Sets have stored two different records
C15_Witness ==
    \E t \in Threads :
        /\ At(t, "get-return")
        /\ thr[t].result # NilInventory
        /\ thr[t].at > thr[t].ts
        /\ \E w \in stored : w.inventory # thr[t].result
        /\ mu.readers = {t}

\* what the cache's contract has a Get return that reads at time at: the
\* record of the most recent Set when no Invalidate followed it and no
\* more than the ttl has passed since it, nothing otherwise
Valid(at) ==
    /\ latest.inventory # NilInventory
    /\ ~latest.invalidated
    /\ at - latest.at <= cache.ttl

\* C16: for every sequence of Set, Invalidate and Get calls and clock
\* advances, a Get returns the record of the most recent Set when no
\* Invalidate followed that Set and the time since it is at most the ttl,
\* equal to the ttl included, and nil in every other case; a Set replaces
\* the entry and restarts the expiry clock whatever the age of the old entry.
C16_GetReturnsLatestValidSet ==
    \A t \in Threads :
        At(t, "get-return")
        => thr[t].result = IF Valid(thr[t].at) THEN latest.inventory
                           ELSE NilInventory

\* a Get exactly ttl > 0 after the most recent Set returns that Set's
\* record; that Set had replaced a different record that was still valid
C16_Witness ==
    \E t \in Threads :
        /\ At(t, "get-return")
        /\ cache.ttl > 0
        /\ thr[t].at - latest.at = cache.ttl
        /\ thr[t].result = latest.inventory
        /\ thr[t].result # NilInventory
        /\ \E w \in stored :
              /\ w.inventory # latest.inventory
              /\ w.timestamp < latest.at
              /\ latest.at - w.timestamp <= cache.ttl

\* the detectors that wait for the network
NetworkBacked(d) == d.kind \in {"KubernetesAPI", "SwarmPort"}

\* C17: a network detector inside Detect has not waited longer than its
\* own timeout, and is not waiting at any time later than the moment the
\* caller's context became done: it stops at the tighter of the two.
C17_NetworkProbeStopsAtTighterDeadline ==
    \A c \in Callers :
        (pc[c] = "probe" /\ NetworkBacked(detectors[idx[c]]))
        => /\ now - meta[c].probeAt <= ProbeTimeout
           /\ ctx[c].err # NilErr => now = meta[c].doneAt

\* C18: a New() call that follows another New() call within the default
\* TTL, with no InvalidateCache between them, is served from the cache and
\* performs no detection; a New() call that follows InvalidateCache
\* performs detection.
C18_SecondNewIsCached ==
    lib.newGap >= 0
    => /\ (~lib.newInval /\ lib.newGap <= DefaultConfig.CacheTTL)
          => ~lib.newDetected
       /\ lib.newInval => lib.newDetected

\* C19: NewWithContext returns a non-nil inventory whatever context it is
\* given, and when the engine's DetectAll ended with a cancellation error
\* the inventory returned has runtime, scheduler and image format all
\* "undetermined".
C19_NewWithContextNeverFails ==
    lib.out.fn = "NewWithContext"
    => /\ lib.out.inventory # NilInventory
       /\ lib.out.err # NilErr
          => \A t \in DetectionType : Field(lib.out.inventory, t) = "undetermined"

\* NewWithContext has returned the all-undetermined inventory after a
\* DetectAll that ended with context.Canceled, on an engine whose cache
\* holds a record with a detected scheduler
C19_Witness ==
    /\ lib.out.fn = "NewWithContext"
    /\ lib.out.err = Canceled
    /\ lib.out.inventory # NilInventory
    /\ lib.out.inventory.Scheduler = "undetermined"
    /\ cache.inventory # NilInventory
    /\ cache.inventory.Scheduler = "kubernetes"

\* C20: every inventory returned by New, by DetectAll and by
\* NewWithContext, its fallback on cancellation included, has the process
\* id of the running process in its PID field.
C20_PidIsProcessId ==
    /\ lib.out.fn # "none" => lib.out.inventory.PID = Getpid
    /\ \A c \in Callers :
          (Completed(c) /\ ret[c].inventory # NilInventory)
          => ret[c].inventory.PID = Getpid

\* ------------------------------------------------- C21..C24: the host
Exists(h, f) == Stat(h, f) = StatNil

\* /proc/self/cgroup can be read and names a container
ContainerIDExtractable(h) ==
    Exists(h, "/proc/self/cgroup") /\ h.cgroup # "plain"

ContainerIndicator(h) ==
    \/ Exists(h, "/.dockerinit")
    \/ Exists(h, "/.dockerenv")
    \/ ContainerIDExtractable(h)

\* C21: IsContainer returns true exactly when /.dockerinit exists,
\* /.dockerenv exists or a container id can be extracted from
\* /proc/self/cgroup, and false when none of them is present.
C21_IsContainerIffIndicator ==
    host.out.fn = "IsContainer" => (host.out.container <=> ContainerIndicator(host.on))

DockerMarker(h) == Exists(h, "/.dockerinit") \/ Exists(h, "/.dockerenv")

\* C22: the image format New() reports is never empty, is "docker" only
\* when /.dockerinit or /.dockerenv exists, and is "undetermined" when there
\* is no Docker marker, no /run/.containerenv and neither AC_METADATA_URL
\* nor AC_APP_NAME.
C22_ImageFormatFollowsMarkers ==
    host.out.fn = "getImageFormat" =>
        /\ host.out.format # ""
        /\ host.out.format = "docker" => DockerMarker(host.on)
        /\ ( /\ ~DockerMarker(host.on)
             /\ ~Exists(host.on, "/run/.containerenv")
             /\ host.on.vars \cap ACVariables = {} )
           => host.out.format = "undetermined"

\* C23: DockerFileDetector returns runtime evidence "docker" with
\* confidence 0.95 when /.dockerenv exists, otherwise with confidence 0.90
\* when /.dockerinit exists, otherwise no evidence; never an error.
C23_DockerFileDetectorByMarker ==
    host.out.fn = "DockerFileDetector.Detect" =>
        /\ host.out.detection.err = NilErr
        /\ host.out.detection.detection =
              (IF Exists(host.on, "/.dockerenv")
               THEN Detection(DetectionTypeRuntime, "docker", 95, "docker-file-marker")
               ELSE IF Exists(host.on, "/.dockerinit")
               THEN Detection(DetectionTypeRuntime, "docker", 90, "docker-file-marker")
               ELSE NoDetection)

\* both markers exist and the detector has answered for /.dockerenv
C23_Witness ==
    /\ host.out.fn = "DockerFileDetector.Detect"
    /\ Exists(host.on, "/.dockerenv")
    /\ Exists(host.on, "/.dockerinit")
    /\ host.out.detection.detection # NoDetection
    /\ host.out.detection.detection.Confidence = 95

\* the position of the first "=" of an entry, 0 if it has none
FirstSeparator(e) ==
    IF \E k \in 1..Len(e) : e[k] = "="
    THEN CHOOSE k \in 1..Len(e) : e[k] = "=" /\ \A j \in 1..(k - 1) : e[j] # "="
    ELSE 0

\* NAME and VALUE of a NAME=VALUE entry
EntryName(e) == SubSeq(e, 1, FirstSeparator(e) - 1)
EntryValue(e) == SubSeq(e, FirstSeparator(e) + 1, Len(e))

\* C24: environMap never fails, and each variable NAME=VALUE of the
\* environment is in the map under NAME with its complete VALUE (for a name
\* set twice, the value of the last entry).
C24_EnvironMapKeepsCompleteValues ==
    host.out.fn = "environMap" =>
        /\ ~host.out.env.panic
        /\ \A i \in 1..Len(host.on.environ) :
              LET e == host.on.environ[i]
              IN  ( /\ FirstSeparator(e) # 0
                    /\ \A j \in (i + 1)..Len(host.on.environ) :
                          \/ FirstSeparator(host.on.environ[j]) = 0
                          \/ EntryName(host.on.environ[j]) # EntryName(e) )
                  => /\ EntryName(e) \in DOMAIN host.out.env.vars
                     /\ host.out.env.vars[EntryName(e)] = EntryValue(e)

\* ---------------------------------------------------------------- C25
\* the step in which the call of c returns
Returns(c) == pc[c] \in {"idle", "loop", "probe"} /\ pc'[c] = "done"

\* C25: a DetectAll call that returns an error leaves the cache as it was:
\* the step in which a call returns an error does not touch the cache, and
\* the cache changes only in the step in which a call returns its record
\* without error, which stores that record, or by InvalidateCache.
C25_FailedCallLeavesCache ==
    [][ /\ \A c \in Callers :
              (Returns(c) /\ ret'[c].err # NilErr) => cache' = cache
        /\ cache' # cache
           => \/ \E c \in Callers :
                    /\ Returns(c)
                    /\ ret'[c].err = NilErr
                    /\ cache'.inventory = ret'[c].inventory
              \/ /\ pc' = pc
                 /\ invalidated'
                 /\ cache'.inventory = NilInventory ]_vars

\* a call has returned an error and the cache still holds the expired
\* record it found
C25_Witness ==
    \E c \in Callers :
        /\ pc[c] = "done"
        /\ ret[c].err # NilErr
        /\ ~meta[c].served
        /\ cache # NilCache
        /\ cache.inventory # NilInventory
        /\ now - cache.timestamp > cache.ttl

\* ------------------------------------------------- C26, C27: concurrency
\* C26: once InvalidateCache has returned, a DetectAll call that starts
\* afterwards is never served a record computed by a run that had started
\* before the invalidation: such a run does not put its record into the
\* cache.
C26_NoPreInvalidationRecord ==
    /\ (cache # NilCache /\ cache.inventory # NilInventory) => ~preInval
    /\ \A c \in Callers : (Completed(c) /\ meta[c].served) => ~meta[c].stale

\* C27: with caching enabled, of the DetectAll calls in flight at the same
\* time at most one executes probes.
C27_SingleFlight ==
    CachingEnabled =>
        \A c1, c2 \in Callers :
            (c1 # c2 /\ InFlight(c1) /\ InFlight(c2)) => (log[c1] = <<>> \/ log[c2] = <<>>)

\* ---------------------------------------------------------------- C30
\* C30: a probe that returns evidence together with an error that is not a
\* cancellation error contributes nothing: the step in which it returns
\* leaves the evidence kept so far as it was, and the run goes on.
C30_FailedProbeEvidenceDiscarded ==
    [][ \A c \in Callers :
           ( /\ pc[c] = "probe"
             /\ Len(log'[c]) = Len(log[c]) + 1
             /\ log'[c][Len(log'[c])].err \notin {NilErr, Canceled, DeadlineExceeded}
             /\ log'[c][Len(log'[c])].detection # NoDetection )
           => /\ results'[c] = results[c]
              /\ pc'[c] = "loop" ]_vars

\* a run in which the first detector found a runtime, the second returned
\* runtime evidence of higher confidence together with an error, and the
\* record carries the first detector's value
C30_Witness ==
    \E c \in Callers :
        /\ RanToCompletion(c)
        /\ Len(log[c]) = 2
        /\ log[c][1].err = NilErr
        /\ log[c][1].detection # NoDetection
        /\ log[c][2].err = ErrProbe
        /\ log[c][2].detection # NoDetection
        /\ log[c][2].detection.Type = log[c][1].detection.Type
        /\ log[c][2].detection.Confidence > log[c][1].detection.Confidence
        /\ ret[c].inventory.Runtime = log[c][1].detection.Value

\* ------------------------------------------------- C28, C29: sharing
\* C28: a record handed to a caller has value semantics: whatever callers
\* do to the records they were handed, the record the cache holds is the
\* record as the engine built it, and the record a cache hit hands to a
\* caller is that record as built.
C28_RecordsHaveValueSemantics ==
    /\ mem.cachePtr # 0 => mem.heap[mem.cachePtr] = mem.built[mem.cachePtr]
    /\ \A c \in Callers :
          mem.held[c] > 0 => mem.got[c] = mem.built[mem.held[c]]

\* C29: NewEngine leaves the caller's Detectors slice as it was, and the
\* order in which an engine runs its detectors is the order its roster had
\* when NewEngine returned, whatever engines are built from the slice and
\* whatever is stored into the slice afterwards.
C29_SliceUntouchedOrderFixed ==
    /\ mem.returned = mem.passed
    /\ \A e \in 1..Len(mem.engines) :
          mem.engines[e].ran \in {<<>>, mem.engines[e].order}

====
